---- MODULE Spec2Model ----
(***************************************************************************)
(* A model of packages/xstate-form: createFormModel, the FormState it      *)
(* keeps under its key in a host machine's context, the three assign       *)
(* behaviours, the createState decorator and the selectors.                *)
(*                                                                         *)
(* JavaScript objects are functions over their own keys.  Spec has one      *)
(* form model (KeyA) in the host context, SpecShared has two (KeyA, KeyB);  *)
(* both keep one sibling key in the context.                               *)
(***************************************************************************)
EXTENDS Naturals, Integers, Sequences, FiniteSets, TLC

VARIABLES
  forms,        \* key -> the form model createFormModel returned for it
  callerConfig, \* the state-node configuration the caller hands to createState
  stateConfig,  \* the state node's configuration, as createState returned it
  context,      \* the host machine's context
  actionCalls,  \* how many times the caller's own action has been called
  lastEvent,    \* history: the tag of the last event sent ("" before any)
  executed,     \* history: the actions the last event ran
  focused,      \* history: the keys whose assignFocusToState has run
  undeclared,   \* history: an event named a field its model never declared
  written       \* history of the behaviours applied directly: key -> field ->
                \* the value of the last CHANGE or BLUR that named the field

vars == <<forms, callerConfig, stateConfig, context, actionCalls, lastEvent,
          executed, focused, undeclared, written>>

(***************************************************************************)
(* Bounds and input domains                                                *)
(***************************************************************************)
\* how many times the caller's own action (jest.fn) may be called
MaxCalls == 2
\* how many distinct field values are drawn
NumVals == 2

AllVals == <<"", "something", "pass", "other">>
Vals == {AllVals[i] : i \in 1..NumVals}

KeyA == "loginForm"
KeyB == "signupForm"
Keys == {KeyA, KeyB}
SiblingKey == "elapsed"

\* the names an event of a model may carry; "password" is undeclared when the
\* model was created with initialValues {username} alone
EventNames(key) == IF key = KeyA THEN {"username", "password"} ELSE {"email"}

EmptyMap == [n \in {} |-> ""]
\* the value of an object entry that is present but mapped to undefined
Undefined == "<undefined>"

NeedUsername == "You must provide a username"
NeedPassword == "You must provide a password"

(***************************************************************************)
(* Validators.  A call returns <<>> for undefined (void) and <<m>> for an   *)
(* object m.                                                               *)
(***************************************************************************)
\* !values[n]: a missing property and the empty string are both falsy
Falsy(values, n) == n \notin DOMAIN values \/ values[n] = ""

LoginValidate(values) ==
  IF Falsy(values, "username") THEN <<[n \in {"username"} |-> NeedUsername]>>
  ELSE IF Falsy(values, "password") THEN <<[n \in {"password"} |-> NeedPassword]>>
  ELSE <<>>

\* a validator that always returns one entry per field, string or undefined
PerFieldValidate(values) ==
  <<[n \in {"username", "password"} |->
       IF Falsy(values, n)
       THEN (IF n = "username" THEN NeedUsername ELSE NeedPassword)
       ELSE Undefined]>>

Validators == {"absent", "login", "perField"}

\* config.validate?.(values)
callValidate(config, values) ==
  CASE config.validate = "absent" -> <<>>
    [] config.validate = "login" -> LoginValidate(values)
    [] config.validate = "perField" -> PerFieldValidate(values)

\* config.validate?.(values) || {}
errorsFor(config, values) ==
  LET r == callValidate(config, values)
  IN  IF Len(r) > 0 THEN r[1] ELSE EmptyMap

(***************************************************************************)
(* Initial-state construction                                              *)
(***************************************************************************)
toInitialBooleanMap(values) == [k \in DOMAIN values |-> FALSE]

\* mutant: the initial values are not validated
makeInitialStateFromConfig_NoValidate(config) ==
  [values  |-> config.initialValues,
   errors  |-> EmptyMap,
   touched |-> toInitialBooleanMap(config.initialValues)]

makeInitialStateFromConfig(config) ==
  [values  |-> config.initialValues,
   errors  |-> errorsFor(config, config.initialValues),
   touched |-> toInitialBooleanMap(config.initialValues)]

(***************************************************************************)
(* Event constructors                                                      *)
(***************************************************************************)
change(key, name, value) == [type |-> key \o ".CHANGE", name |-> name, value |-> value]
blur(key, name, value) == [type |-> key \o ".BLUR", name |-> name, value |-> value]
focus(key, name) == [type |-> key \o ".FOCUS", name |-> name]
submit(key, values) == [type |-> key \o ".SUBMIT", values |-> values]

(***************************************************************************)
(* State-merging behaviours: each returns the partial context {[key]: ...}  *)
(***************************************************************************)
\* mutant: { [name]: value, ...obj }, an entry obj already has wins
SpreadWith_OldWins(obj, name, value) ==
  [n \in DOMAIN obj \cup {name} |-> IF n \in DOMAIN obj THEN obj[n] ELSE value]

\* { ...obj, [name]: value }
SpreadWith(obj, name, value) ==
  [n \in DOMAIN obj \cup {name} |-> IF n = name THEN value ELSE obj[n]]

\* mutant: errors are carried over instead of recomputed
assignChangeToState_StaleErrors(key, config, ctx, event) ==
  LET newValues == SpreadWith(ctx[key].values, event.name, event.value)
  IN  [k \in {key} |->
         [values  |-> newValues,
          errors  |-> ctx[key].errors,
          touched |-> ctx[key].touched]]

\* mutant: the new FormState is returned without the [key] wrapper, so assign
\* merges its fields into the host context itself
assignChangeToState_Unkeyed(key, config, ctx, event) ==
  LET newValues == SpreadWith(ctx[key].values, event.name, event.value)
  IN  [p \in {"values", "errors", "touched"} |->
         CASE p = "values" -> newValues
           [] p = "errors" -> errorsFor(config, newValues)
           [] p = "touched" -> ctx[key].touched]

assignChangeToState(key, config, ctx, event) ==
  LET newValues == SpreadWith(ctx[key].values, event.name, event.value)
  IN  [k \in {key} |->
         [values  |-> newValues,
          errors  |-> errorsFor(config, newValues),
          touched |-> ctx[key].touched]]

\* mutant: leaving a field also marks it touched
assignBlurToState_Touches(key, config, ctx, event) ==
  LET newValues == SpreadWith(ctx[key].values, event.name, event.value)
  IN  [k \in {key} |->
         [values  |-> newValues,
          errors  |-> errorsFor(config, newValues),
          touched |-> SpreadWith(ctx[key].touched, event.name, TRUE)]]

assignBlurToState(key, config, ctx, event) ==
  LET newValues == SpreadWith(ctx[key].values, event.name, event.value)
  IN  [k \in {key} |->
         [values  |-> newValues,
          errors  |-> errorsFor(config, newValues),
          touched |-> ctx[key].touched]]

\* mutant: the entry is flipped instead of set
assignFocusToState_Toggle(key, config, ctx, event) ==
  [k \in {key} |->
     [values  |-> ctx[key].values,
      errors  |-> ctx[key].errors,
      touched |-> SpreadWith(ctx[key].touched, event.name,
                             ~(/\ event.name \in DOMAIN ctx[key].touched
                               /\ ctx[key].touched[event.name]))]]

\* mutant: an existence check, a name touched does not hold is ignored
assignFocusToState_ChecksName(key, config, ctx, event) ==
  [k \in {key} |->
     [values  |-> ctx[key].values,
      errors  |-> ctx[key].errors,
      touched |-> IF event.name \in DOMAIN ctx[key].touched
                  THEN SpreadWith(ctx[key].touched, event.name, TRUE)
                  ELSE ctx[key].touched]]

\* mutant: touched is replaced by the one entry, the spread is forgotten
assignFocusToState_OnlyName(key, config, ctx, event) ==
  [k \in {key} |->
     [values  |-> ctx[key].values,
      errors  |-> ctx[key].errors,
      touched |-> [n \in {event.name} |-> TRUE]]]

assignFocusToState(key, config, ctx, event) ==
  [k \in {key} |->
     [values  |-> ctx[key].values,
      errors  |-> ctx[key].errors,
      touched |-> SpreadWith(ctx[key].touched, event.name, TRUE)]]

(***************************************************************************)
(* createState: the defaults first, the caller's `on` second                *)
(***************************************************************************)
Handler(fn, key) == [actions |-> <<[fn |-> fn, key |-> key]>>]

\* ...config.on (nothing when the configuration has no `on`)
OnOf(config) == IF "on" \in DOMAIN config THEN config["on"] ELSE EmptyMap

\* mutant: a fourth default, for SUBMIT
defaultHandlers_WithSubmit(key) ==
  [t \in {key \o ".CHANGE", key \o ".BLUR", key \o ".FOCUS", key \o ".SUBMIT"} |->
     IF t = key \o ".CHANGE" THEN Handler("assignChangeToState", key)
     ELSE IF t = key \o ".BLUR" THEN Handler("assignBlurToState", key)
     ELSE IF t = key \o ".FOCUS" THEN Handler("assignFocusToState", key)
     ELSE Handler("assignSubmitToState", key)]

\* the three handlers createState installs
defaultHandlers(key) ==
  [t \in {key \o ".CHANGE", key \o ".BLUR", key \o ".FOCUS"} |->
     IF t = key \o ".CHANGE" THEN Handler("assignChangeToState", key)
     ELSE IF t = key \o ".BLUR" THEN Handler("assignBlurToState", key)
     ELSE Handler("assignFocusToState", key)]

\* mutant: the caller's `on` is spread first, so the defaults win
createState_DefaultsLast(key, config) ==
  LET defaults == defaultHandlers(key)
      callerOn == OnOf(config)
      on == [t \in DOMAIN defaults \cup DOMAIN callerOn |->
               IF t \in DOMAIN defaults THEN defaults[t] ELSE callerOn[t]]
  IN  [p \in DOMAIN config \cup {"on"} |-> IF p = "on" THEN on ELSE config[p]]

\* mutant: `on` is written before ...config, so a caller's `on` replaces the
\* whole mapping and the defaults it does not name are lost
createState_OnReplaced(key, config) ==
  LET defaults == defaultHandlers(key)
      on == IF "on" \in DOMAIN config THEN config["on"] ELSE defaults
  IN  [p \in DOMAIN config \cup {"on"} |-> IF p = "on" THEN on ELSE config[p]]

createState(key, config) ==
  LET defaults == defaultHandlers(key)
      callerOn == OnOf(config)
      on == [t \in DOMAIN defaults \cup DOMAIN callerOn |->
               IF t \in DOMAIN callerOn THEN callerOn[t] ELSE defaults[t]]
  IN  [p \in DOMAIN config \cup {"on"} |-> IF p = "on" THEN on ELSE config[p]]

(***************************************************************************)
(* Selectors                                                               *)
(***************************************************************************)
getIsDirty(key, ctx) == \E n \in DOMAIN ctx[key].touched : ctx[key].touched[n]

\* mutant: entries mapped to undefined are not counted
getIsValid_IgnoresUndefined(key, ctx) ==
  \A n \in DOMAIN ctx[key].errors : ctx[key].errors[n] = Undefined

getIsValid(key, ctx) == Cardinality(DOMAIN ctx[key].errors) = 0

getIsPristine(key, ctx) == ~getIsDirty(key, ctx)

createFormModel(key, config) ==
  [key |-> key, config |-> config,
   initialContext |-> makeInitialStateFromConfig(config)]

(***************************************************************************)
(* The host machine: one state node, serialized dispatch by exact tag      *)
(***************************************************************************)
\* assign: the partial update replaces the keys it names, siblings are kept
assign(ctx, partial) ==
  [k \in DOMAIN ctx \cup DOMAIN partial |->
     IF k \in DOMAIN partial THEN partial[k] ELSE ctx[k]]

\* the context and the caller-action call count after one action
execute(action, st, event) ==
  CASE action.fn = "assignChangeToState" ->
         [ctx |-> assign(st.ctx, assignChangeToState(action.key, forms[action.key].config, st.ctx, event)),
          calls |-> st.calls]
    [] action.fn = "assignBlurToState" ->
         [ctx |-> assign(st.ctx, assignBlurToState(action.key, forms[action.key].config, st.ctx, event)),
          calls |-> st.calls]
    [] action.fn = "assignFocusToState" ->
         [ctx |-> assign(st.ctx, assignFocusToState(action.key, forms[action.key].config, st.ctx, event)),
          calls |-> st.calls]
    [] OTHER -> [ctx |-> st.ctx, calls |-> st.calls + 1]

RECURSIVE executeAll(_, _, _)
executeAll(actions, st, event) ==
  IF actions = <<>> THEN st
  ELSE executeAll(Tail(actions), execute(Head(actions), st, event), event)

\* the actions of the handler registered for the event's tag, if any
actionsFor(event) ==
  IF event.type \in DOMAIN stateConfig["on"]
  THEN stateConfig["on"][event.type].actions
  ELSE <<>>

send(event) ==
  LET acts == actionsFor(event)
      st == executeAll(acts, [ctx |-> context, calls |-> actionCalls], event)
  IN  /\ st.calls <= MaxCalls
      /\ context' = st.ctx
      /\ actionCalls' = st.calls
      /\ lastEvent' = event.type
      /\ executed' = acts
      /\ focused' = focused \cup {acts[i].key : i \in {j \in 1..Len(acts) :
                                     acts[j].fn = "assignFocusToState"}}

(***************************************************************************)
(* Construction                                                            *)
(***************************************************************************)
CallerAction == [actions |-> <<[fn |-> "action", key |-> ""]>>]

\* the caller's state-node configurations: the empty one of createState({}),
\* and those with an entry property, an unrelated handler and one handler of
\* the caller's own for an event of model A
CallerConfigs ==
  {EmptyMap}
  \cup {[p \in {"entry", "on"} |->
           IF p = "entry" THEN "notify"
           ELSE ("PING" :> CallerAction) @@ ((KeyA \o s) :> CallerAction)]
        : s \in {".CHANGE", ".BLUR", ".FOCUS", ".SUBMIT"}}

InitialValuesA ==
  UNION {[D -> Vals] : D \in {{"username", "password"}, {"username"}}}

\* context: { [key]: model.initialContext, ..., elapsed: {count: 0} }
InitialHostContext(fs) ==
  [k \in DOMAIN fs \cup {SiblingKey} |->
     IF k = SiblingKey THEN [count |-> 0] ELSE fs[k].initialContext]

\* one form model in the host machine
Init ==
  /\ \E iv \in InitialValuesA, v \in Validators :
       forms = [k \in {KeyA} |->
                  createFormModel(KeyA, [initialValues |-> iv, validate |-> v])]
  /\ callerConfig \in CallerConfigs
  /\ stateConfig = createState(KeyA, callerConfig)
  /\ context = InitialHostContext(forms)
  /\ actionCalls = 0
  /\ lastEvent = ""
  /\ executed = <<>>
  /\ focused = {}
  /\ undeclared = FALSE
  /\ written = [k \in DOMAIN forms |-> EmptyMap]

\* two form models sharing one host machine and one state node
InitShared ==
  /\ forms = [k \in Keys |->
                IF k = KeyA
                THEN createFormModel(KeyA,
                       [initialValues |-> [n \in {"username", "password"} |-> ""],
                        validate |-> "login"])
                ELSE createFormModel(KeyB,
                       [initialValues |-> [n \in {"email"} |-> ""],
                        validate |-> "absent"])]
  /\ callerConfig \in CallerConfigs
  /\ stateConfig = createState(KeyB, createState(KeyA, callerConfig))
  /\ context = InitialHostContext(forms)
  /\ actionCalls = 0
  /\ lastEvent = ""
  /\ executed = <<>>
  /\ focused = {}
  /\ undeclared = FALSE
  /\ written = [k \in DOMAIN forms |-> EmptyMap]

(***************************************************************************)
(* Events sent to the running service                                      *)
(***************************************************************************)
\* the field names the model of this key was created with
Declared(k) == DOMAIN forms[k].config.initialValues

SendChange ==
  \E k \in DOMAIN forms : \E n \in EventNames(k), v \in Vals :
    /\ send(change(k, n, v))
    /\ undeclared' = (undeclared \/ n \notin Declared(k))
    /\ UNCHANGED <<forms, callerConfig, stateConfig, written>>

SendBlur ==
  \E k \in DOMAIN forms : \E n \in EventNames(k), v \in Vals :
    /\ send(blur(k, n, v))
    /\ undeclared' = (undeclared \/ n \notin Declared(k))
    /\ UNCHANGED <<forms, callerConfig, stateConfig, written>>

SendFocus ==
  \E k \in DOMAIN forms : \E n \in EventNames(k) :
    /\ send(focus(k, n))
    /\ undeclared' = (undeclared \/ n \notin Declared(k))
    /\ UNCHANGED <<forms, callerConfig, stateConfig, written>>

SendSubmit ==
  \E k \in DOMAIN forms :
    /\ send(submit(k, context[k].values))
    /\ UNCHANGED <<forms, callerConfig, stateConfig, undeclared, written>>

SendPing ==
  /\ send([type |-> "PING"])
  /\ UNCHANGED <<forms, callerConfig, stateConfig, undeclared, written>>

Next == SendChange \/ SendBlur \/ SendFocus \/ SendSubmit \/ SendPing

Spec == Init /\ [][Next]_vars

SpecShared == InitShared /\ [][Next]_vars

(***************************************************************************)
(* Properties                                                              *)
(***************************************************************************)
DefaultAction(fn, k) == <<[fn |-> fn, key |-> k]>>

\* the event is handled by the default CHANGE or BLUR behaviour of model k
RunsDefaultWrite(e, k) ==
  \/ actionsFor(e) = DefaultAction("assignChangeToState", k)
  \/ actionsFor(e) = DefaultAction("assignBlurToState", k)

InitialValues(k) == forms[k].config.initialValues

\* C1: in every reachable state, errors is what validate yields for the
\* current values (the empty mapping when there is no validator or validate
\* returns nothing): errors is never stale relative to values.
C1_ErrorsCurrent ==
  \A k \in DOMAIN forms :
    LET r == callValidate(forms[k].config, context[k].values)
    IN  /\ forms[k].config.validate = "absent" => context[k].errors = EmptyMap
        /\ r = <<>> => context[k].errors = EmptyMap
        /\ r # <<>> => context[k].errors = r[1]

\* the test's scenario: the username error at the start, the password error
\* after a CHANGE of username
C1_Witness ==
  /\ lastEvent = KeyA \o ".CHANGE"
  /\ executed = DefaultAction("assignChangeToState", KeyA)
  /\ forms[KeyA].initialContext.errors = [n \in {"username"} |-> NeedUsername]
  /\ context[KeyA].errors = [n \in {"password"} |-> NeedPassword]

\* C2: a CHANGE or BLUR (name n, value v) handled by the default behaviour
\* sets values[n] to v, keeps the value of every other field, and keeps
\* touched.
C2_WriteFrame ==
  [][\A k \in DOMAIN forms : \A n \in EventNames(k), v \in Vals :
       \A e \in {change(k, n, v), blur(k, n, v)} :
         (lastEvent' = e.type /\ send(e) /\ RunsDefaultWrite(e, k)) =>
           /\ context'[k].values[n] = v
           /\ DOMAIN context'[k].values = DOMAIN context[k].values \cup {n}
           /\ \A m \in DOMAIN context[k].values \ {n} :
                context'[k].values[m] = context[k].values[m]
           /\ context'[k].touched = context[k].touched]_vars

C2_Witness ==
  /\ lastEvent = KeyA \o ".BLUR"
  /\ executed = DefaultAction("assignBlurToState", KeyA)
  /\ "password" \in Declared(KeyA)
  /\ context[KeyA].values["username"] # InitialValues(KeyA)["username"]
  /\ context[KeyA].values["password"] = InitialValues(KeyA)["password"]
  /\ context[KeyA].touched["password"]

\* C3: a FOCUS (name n) handled by the default behaviour sets touched[n],
\* keeps every other touched entry, keeps values and errors, and afterwards
\* getIsDirty is true and getIsPristine is false.
C3_FocusFrame ==
  [][\A k \in DOMAIN forms : \A n \in EventNames(k) :
       (/\ lastEvent' = focus(k, n).type
        /\ send(focus(k, n))
        /\ actionsFor(focus(k, n)) = DefaultAction("assignFocusToState", k)) =>
         /\ context'[k].touched[n] = TRUE
         /\ DOMAIN context'[k].touched = DOMAIN context[k].touched \cup {n}
         /\ \A m \in DOMAIN context[k].touched \ {n} :
              context'[k].touched[m] = context[k].touched[m]
         /\ context'[k].values = context[k].values
         /\ context'[k].errors = context[k].errors
         /\ getIsDirty(k, context')
         /\ ~getIsPristine(k, context')]_vars

C3_Witness ==
  /\ lastEvent = KeyA \o ".FOCUS"
  /\ executed = DefaultAction("assignFocusToState", KeyA)
  /\ context[KeyA].touched = [n \in {"username", "password"} |-> n = "username"]
  /\ context[KeyA].errors # EmptyMap
  /\ getIsDirty(KeyA, context)

\* C4: when the caller's configuration declares its own handler for
\* <key>.CHANGE, a <key>.CHANGE event leaves the context as it was and runs
\* the caller's action alone, once.
C4_OverrideWins ==
  [][\A k \in DOMAIN forms : \A n \in EventNames(k), v \in Vals :
       (/\ lastEvent' = change(k, n, v).type
        /\ (k \o ".CHANGE") \in DOMAIN OnOf(callerConfig)
        /\ send(change(k, n, v))) =>
         /\ context' = context
         /\ executed' = OnOf(callerConfig)[k \o ".CHANGE"].actions
         /\ actionCalls' = actionCalls + 1]_vars

C4_Witness ==
  /\ lastEvent = KeyA \o ".CHANGE"
  /\ (KeyA \o ".CHANGE") \in DOMAIN OnOf(callerConfig)
  /\ actionCalls = 1
  /\ executed = CallerAction.actions
  /\ context[KeyA] = forms[KeyA].initialContext

\* C5: getIsValid is true exactly when errors has no entry, which is exactly
\* when validate reports no entry for the current values (or is absent).
C5_ValidIffNoErrors ==
  \A k \in DOMAIN forms :
    /\ getIsValid(k, context) <=> DOMAIN context[k].errors = {}
    /\ getIsValid(k, context) <=>
         LET r == callValidate(forms[k].config, context[k].values)
         IN  r = <<>> \/ DOMAIN r[1] = {}

\* the test's scenario: invalid at the start, valid after both fields changed
C5_Witness ==
  /\ forms[KeyA].config.validate = "login"
  /\ ~getIsValid(KeyA, InitialHostContext(forms))
  /\ lastEvent = KeyA \o ".CHANGE"
  /\ getIsValid(KeyA, context)

\* C6: the initial FormState has values = initialValues, errors = what
\* validate yields for them (empty when it is absent or returns nothing) and
\* touched false for every key of initialValues; it is pristine, not dirty.
C6_InitialState ==
  \A k \in DOMAIN forms :
    LET cfg == forms[k].config
        ic == forms[k].initialContext
        r == callValidate(cfg, cfg.initialValues)
    IN  /\ ic.values = cfg.initialValues
        /\ cfg.validate = "absent" => ic.errors = EmptyMap
        /\ r = <<>> => ic.errors = EmptyMap
        /\ r # <<>> => ic.errors = r[1]
        /\ DOMAIN ic.touched = DOMAIN cfg.initialValues
        /\ \A n \in DOMAIN cfg.initialValues : ic.touched[n] = FALSE
        /\ lastEvent = "" =>
             /\ context[k] = ic
             /\ ~getIsDirty(k, context)
             /\ getIsPristine(k, context)

C6_Witness ==
  /\ lastEvent = ""
  /\ forms[KeyA].config.validate = "login"
  /\ InitialValues(KeyA) = [n \in {"username", "password"} |-> ""]
  /\ context[KeyA].errors = [n \in {"username"} |-> NeedUsername]
  /\ context[KeyA].touched = [n \in {"username", "password"} |-> FALSE]

\* the caller overrides none of CHANGE, BLUR, FOCUS
DefaultsInstalled(k) ==
  \A t \in DOMAIN defaultHandlers(k) : t \notin DOMAIN OnOf(callerConfig)

\* C7 as stated: in every state reached by CHANGE, BLUR and FOCUS events
\* handled by the default behaviours, touched (and values) has exactly the
\* field names of initialValues.
C7_FieldsFixed ==
  \A k \in DOMAIN forms :
    DefaultsInstalled(k) =>
      /\ DOMAIN context[k].touched = Declared(k)
      /\ DOMAIN context[k].values = Declared(k)

\* C7 amended: as long as every event sent named a field of initialValues,
\* touched and values have exactly the field names of initialValues.
C7_FieldsFixedForDeclaredNames ==
  \A k \in DOMAIN forms :
    ~undeclared =>
      /\ DOMAIN context[k].touched = Declared(k)
      /\ DOMAIN context[k].values = Declared(k)

C7_Witness ==
  /\ ~undeclared
  /\ DefaultsInstalled(KeyA)
  /\ Declared(KeyA) = {"username", "password"}
  /\ lastEvent = KeyA \o ".FOCUS"
  /\ context[KeyA].touched["password"]
  /\ context[KeyA].values["username"] # InitialValues(KeyA)["username"]

\* the events the constructors of model k build
EventsOf(k) ==
  {change(k, n, v) : n \in EventNames(k), v \in Vals}
  \cup {blur(k, n, v) : n \in EventNames(k), v \in Vals}
  \cup {focus(k, n) : n \in EventNames(k)}
  \cup {submit(k, context[k].values)}

\* C8: with two models under distinct keys in one host context, an event of
\* one model leaves every other key of the context as it was, runs no action
\* of the other model, and carries a tag no event of the other model carries.
C8_Isolation ==
  [][\A k \in DOMAIN forms : \A e \in EventsOf(k) :
       (lastEvent' = e.type /\ send(e)) =>
         /\ DOMAIN context' = DOMAIN context
         /\ \A j \in DOMAIN context \ {k} : context'[j] = context[j]
         /\ \A i \in 1..Len(executed') : executed'[i].key \notin DOMAIN forms \ {k}
         /\ \A j \in DOMAIN forms \ {k} : \A f \in EventsOf(j) : f.type # e.type]_vars

C8_Witness ==
  /\ DOMAIN forms = {KeyA, KeyB}
  /\ lastEvent = KeyA \o ".CHANGE"
  /\ executed = DefaultAction("assignChangeToState", KeyA)
  /\ context[KeyA].values["username"] # InitialValues(KeyA)["username"]
  /\ context[KeyB].values["email"] # InitialValues(KeyB)["email"]
  /\ context[KeyB].touched["email"]

\* C9 as stated: getIsValid is true exactly when every field is absent from
\* errors or mapped to nothing.
C9_ValidIffNoErrorString ==
  \A k \in DOMAIN forms :
    getIsValid(k, context) <=>
      \A n \in DOMAIN context[k].errors : context[k].errors[n] = Undefined

\* C10: only FOCUS marks a field touched: while no default FOCUS behaviour
\* has run, every touched entry is false (not dirty, pristine), and the form
\* is dirty exactly when one has run.
C10_OnlyFocusTouches ==
  \A k \in DOMAIN forms :
    /\ getIsDirty(k, context) <=> k \in focused
    /\ k \notin focused =>
         /\ \A n \in DOMAIN context[k].touched : context[k].touched[n] = FALSE
         /\ ~getIsDirty(k, context)
         /\ getIsPristine(k, context)

C10_Witness ==
  /\ KeyA \notin focused
  /\ DefaultsInstalled(KeyA)
  /\ lastEvent = KeyA \o ".SUBMIT"
  /\ context[KeyA].values # InitialValues(KeyA)
  /\ getIsPristine(KeyA, context)

\* C11: createState installs no default handler for <key>.SUBMIT: when the
\* caller declares none either, a SUBMIT event runs no action and leaves
\* values, errors and touched as they were.
C11_SubmitHasNoDefault ==
  [][\A k \in DOMAIN forms :
       LET e == submit(k, context[k].values)
       IN  (/\ lastEvent' = e.type
            /\ e.type \notin DOMAIN OnOf(callerConfig)
            /\ send(e)) =>
             /\ context'[k].values = context[k].values
             /\ context'[k].errors = context[k].errors
             /\ context'[k].touched = context[k].touched
             /\ executed' = <<>>
             /\ actionCalls' = actionCalls]_vars

C11_Witness ==
  /\ lastEvent = KeyA \o ".SUBMIT"
  /\ (KeyA \o ".SUBMIT") \notin DOMAIN OnOf(callerConfig)
  /\ executed = <<>>
  /\ context[KeyA].values # InitialValues(KeyA)
  /\ getIsDirty(KeyA, context)

\* C12: the default BLUR behaviour yields exactly the FormState the default
\* CHANGE behaviour yields for the same name and value, and conversely.
C12_BlurIsChange ==
  [][\A k \in DOMAIN forms : \A n \in EventNames(k), v \in Vals :
       /\ (/\ lastEvent' = blur(k, n, v).type
           /\ actionsFor(blur(k, n, v)) = DefaultAction("assignBlurToState", k)
           /\ send(blur(k, n, v))) =>
            context' = assign(context,
                         assignChangeToState(k, forms[k].config, context, change(k, n, v)))
       /\ (/\ lastEvent' = change(k, n, v).type
           /\ actionsFor(change(k, n, v)) = DefaultAction("assignChangeToState", k)
           /\ send(change(k, n, v))) =>
            context' = assign(context,
                         assignBlurToState(k, forms[k].config, context, blur(k, n, v)))]_vars

\* the test's CHANGE scenario, reached by BLUR instead
C12_Witness ==
  /\ lastEvent = KeyA \o ".BLUR"
  /\ executed = DefaultAction("assignBlurToState", KeyA)
  /\ forms[KeyA].initialContext.errors = [n \in {"username"} |-> NeedUsername]
  /\ context[KeyA].values = [n \in {"username", "password"} |->
                               IF n = "username" THEN "something" ELSE ""]
  /\ context[KeyA].errors = [n \in {"password"} |-> NeedPassword]

\* C13: an event whose name is not a declared field is handled like any
\* other: CHANGE and BLUR write the new key with the event's value into
\* values and recompute errors from the enlarged values, FOCUS writes the
\* new key as true into touched.
C13_UnknownNamesAccepted ==
  [][\A k \in DOMAIN forms : \A n \in EventNames(k) \ Declared(k) :
       /\ \A v \in Vals : \A e \in {change(k, n, v), blur(k, n, v)} :
            (lastEvent' = e.type /\ RunsDefaultWrite(e, k) /\ send(e)) =>
              /\ DOMAIN context'[k].values = DOMAIN context[k].values \cup {n}
              /\ context'[k].values[n] = v
              /\ LET r == callValidate(forms[k].config, context'[k].values)
                 IN  context'[k].errors = IF r = <<>> THEN EmptyMap ELSE r[1]
       /\ (/\ lastEvent' = focus(k, n).type
           /\ actionsFor(focus(k, n)) = DefaultAction("assignFocusToState", k)
           /\ send(focus(k, n))) =>
            /\ DOMAIN context'[k].touched = DOMAIN context[k].touched \cup {n}
            /\ context'[k].touched[n] = TRUE]_vars

C13_Witness ==
  /\ undeclared
  /\ Declared(KeyA) = {"username"}
  /\ forms[KeyA].config.validate = "login"
  /\ forms[KeyA].initialContext.errors = [n \in {"password"} |-> NeedPassword]
  /\ context[KeyA].values = [n \in {"username", "password"} |-> "something"]
  /\ context[KeyA].errors = EmptyMap
  /\ context[KeyA].touched = [n \in {"username", "password"} |-> n = "password"]

\* C14: the override is per event name, the last writer wins: a caller entry
\* for one of <key>.CHANGE, <key>.BLUR, <key>.FOCUS is the handler of that
\* event (the default action is not run as well), the defaults of the other
\* names stay installed and keep updating the FormState, and the caller's
\* other handlers and other configuration properties are kept.
C14_OverridePerEventName ==
  [][\A k \in DOMAIN forms :
       LET callerOn == OnOf(callerConfig)
           defaults == defaultHandlers(k)
       IN  /\ \A p \in DOMAIN callerConfig \ {"on"} :
                p \in DOMAIN stateConfig /\ stateConfig[p] = callerConfig[p]
           /\ \A t \in DOMAIN callerOn :
                t \in DOMAIN stateConfig["on"] /\ stateConfig["on"][t] = callerOn[t]
           /\ \A t \in DOMAIN defaults \ DOMAIN callerOn :
                t \in DOMAIN stateConfig["on"] /\ stateConfig["on"][t] = defaults[t]
           /\ \A e \in EventsOf(k) :
                (lastEvent' = e.type /\ send(e)) =>
                  IF e.type \in DOMAIN callerOn
                  THEN /\ executed' = callerOn[e.type].actions
                       /\ context' = context
                       /\ actionCalls' = actionCalls + 1
                  ELSE IF e.type \in DOMAIN defaults
                  THEN /\ executed' = defaults[e.type].actions
                       /\ actionCalls' = actionCalls
                       /\ IF e.type = focus(k, e.name).type
                          THEN context'[k].touched[e.name] = TRUE
                          ELSE context'[k].values[e.name] = e.value
                  ELSE /\ executed' = <<>>
                       /\ context' = context]_vars

\* BLUR is the caller's, and has run once; CHANGE and FOCUS are still the
\* defaults, and have updated the FormState
C14_Witness ==
  /\ (KeyA \o ".BLUR") \in DOMAIN OnOf(callerConfig)
  /\ stateConfig["entry"] = "notify"
  /\ stateConfig["on"]["PING"] = CallerAction
  /\ actionCalls = 1
  /\ lastEvent = KeyA \o ".CHANGE"
  /\ executed = DefaultAction("assignChangeToState", KeyA)
  /\ context[KeyA].values["username"] # InitialValues(KeyA)["username"]
  /\ context[KeyA].touched["username"]

(***************************************************************************)
(* The default behaviours as functions of a context and an event            *)
(***************************************************************************)
\* the CHANGE, BLUR and FOCUS events of model k
BehaviourEvents(k) ==
  {change(k, n, v) : n \in EventNames(k), v \in Vals}
  \cup {blur(k, n, v) : n \in EventNames(k), v \in Vals}
  \cup {focus(k, n) : n \in EventNames(k)}

IsFocus(k, e) == e.type = k \o ".FOCUS"

\* the partial context the default behaviour of the event's tag returns
defaultUpdate(k, ctx, e) ==
  CASE e.type = k \o ".CHANGE" -> assignChangeToState(k, forms[k].config, ctx, e)
    [] e.type = k \o ".BLUR" -> assignBlurToState(k, forms[k].config, ctx, e)
    [] e.type = k \o ".FOCUS" -> assignFocusToState(k, forms[k].config, ctx, e)

\* one behaviour applied by the host: it reads ctx and writes its update
handleDefault(k, ctx, e) == assign(ctx, defaultUpdate(k, ctx, e))

\* serialized dispatch: the second behaviour reads what the first wrote
applySerialized(k, ctx, e1, e2) == handleDefault(k, handleDefault(k, ctx, e1), e2)

\* concurrent application: both read ctx, then e1 writes, then e2 writes
applyConcurrently(k, ctx, e1, e2) ==
  assign(assign(ctx, defaultUpdate(k, ctx, e1)), defaultUpdate(k, ctx, e2))

\* the FormState of k in ctx shows the event's update
Reflects(k, ctx, e) ==
  IF IsFocus(k, e)
  THEN e.name \in DOMAIN ctx[k].touched /\ ctx[k].touched[e.name] = TRUE
  ELSE e.name \in DOMAIN ctx[k].values /\ ctx[k].values[e.name] = e.value

\* e2 writes the very field e1 wrote
Supersedes(k, e2, e1) == ~IsFocus(k, e1) /\ ~IsFocus(k, e2) /\ e1.name = e2.name

(***************************************************************************)
(* The behaviours applied directly to a context, one at a time             *)
(***************************************************************************)
InitBehaviours == Init /\ callerConfig = EmptyMap

ApplyChange ==
  \E k \in DOMAIN forms : \E n \in EventNames(k), v \in Vals :
    /\ context' = handleDefault(k, context, change(k, n, v))
    /\ written' = [written EXCEPT ![k] = (n :> v) @@ written[k]]
    /\ UNCHANGED <<forms, callerConfig, stateConfig, actionCalls, lastEvent,
                   executed, focused, undeclared>>

ApplyBlur ==
  \E k \in DOMAIN forms : \E n \in EventNames(k), v \in Vals :
    /\ context' = handleDefault(k, context, blur(k, n, v))
    /\ written' = [written EXCEPT ![k] = (n :> v) @@ written[k]]
    /\ UNCHANGED <<forms, callerConfig, stateConfig, actionCalls, lastEvent,
                   executed, focused, undeclared>>

ApplyFocus ==
  \E k \in DOMAIN forms : \E n \in EventNames(k) :
    /\ context' = handleDefault(k, context, focus(k, n))
    /\ UNCHANGED <<forms, callerConfig, stateConfig, actionCalls, lastEvent,
                   executed, focused, undeclared, written>>

\* SUBMIT has no behaviour: the context is handed back as it is
ApplySubmit ==
  \E k \in DOMAIN forms :
    /\ submit(k, context[k].values).type \notin DOMAIN defaultHandlers(k)
    /\ context' = context
    /\ UNCHANGED <<forms, callerConfig, stateConfig, actionCalls, lastEvent,
                   executed, focused, undeclared, written>>

NextBehaviours == ApplyChange \/ ApplyBlur \/ ApplyFocus \/ ApplySubmit

SpecBehaviours == InitBehaviours /\ [][NextBehaviours]_vars

\* C15: from every reachable context, two behaviours applied one after the
\* other leave a FormState that reflects both events (the later value when
\* both write one field); applied concurrently, both reading the same prior
\* FormState, they leave what the last writer alone yields, and there are
\* two events for which the update of the first is lost.
C15_SerializedOrLost ==
  \A k \in DOMAIN forms :
    /\ \A e1 \in BehaviourEvents(k), e2 \in BehaviourEvents(k) :
         LET s == applySerialized(k, context, e1, e2)
             c == applyConcurrently(k, context, e1, e2)
         IN  /\ Reflects(k, s, e2)
             /\ ~Supersedes(k, e2, e1) => Reflects(k, s, e1)
             /\ c = handleDefault(k, context, e2)
             /\ (~Reflects(k, handleDefault(k, context, e2), e1)) => ~Reflects(k, c, e1)
    /\ \E e1 \in BehaviourEvents(k), e2 \in BehaviourEvents(k) :
         /\ ~Supersedes(k, e2, e1)
         /\ Reflects(k, applySerialized(k, context, e1, e2), e1)
         /\ ~Reflects(k, applyConcurrently(k, context, e1, e2), e1)

\* two events handled one after the other, both reflected
C15_Witness ==
  /\ context[KeyA].touched = [n \in {"username", "password"} |-> n = "password"]
  /\ InitialValues(KeyA) = [n \in {"username", "password"} |-> ""]
  /\ context[KeyA].values = [n \in {"username", "password"} |->
                               IF n = "username" THEN "something" ELSE ""]
  /\ ~Reflects(KeyA,
        applyConcurrently(KeyA, InitialHostContext(forms),
                          change(KeyA, "username", "something"),
                          focus(KeyA, "password")),
        change(KeyA, "username", "something"))

\* C16: the last write wins per field: values[f] is the value of the most
\* recent CHANGE or BLUR that named f, or initialValues[f] when there was
\* none; FOCUS, SUBMIT and writes of other fields do not alter it.
C16_LastWriteWins ==
  \A k \in DOMAIN forms :
    /\ DOMAIN context[k].values = Declared(k) \cup DOMAIN written[k]
    /\ \A f \in DOMAIN context[k].values :
         context[k].values[f] =
           IF f \in DOMAIN written[k] THEN written[k][f] ELSE InitialValues(k)[f]

C16_Witness ==
  /\ InitialValues(KeyA) = [n \in {"username", "password"} |->
                              IF n = "username" THEN "" ELSE "something"]
  /\ written[KeyA] = [n \in {"username"} |-> "something"]
  /\ context[KeyA].values = [n \in {"username", "password"} |-> "something"]
  /\ context[KeyA].touched["password"]

\* C17: touched is monotonic: no step sets a touched entry back to false or
\* removes it, and once getIsDirty is true it stays true (getIsPristine
\* false).
C17_TouchedMonotonic ==
  [][\A k \in DOMAIN forms :
       /\ \A n \in DOMAIN context[k].touched :
            context[k].touched[n] =>
              n \in DOMAIN context'[k].touched /\ context'[k].touched[n]
       /\ getIsDirty(k, context) =>
            getIsDirty(k, context') /\ ~getIsPristine(k, context')]_vars

\* username was focused, password was focused after it, a CHANGE came last
C17_Witness ==
  /\ KeyA \in focused
  /\ lastEvent = KeyA \o ".CHANGE"
  /\ executed = DefaultAction("assignChangeToState", KeyA)
  /\ context[KeyA].touched = [n \in {"username", "password"} |-> TRUE]
  /\ context[KeyA].values # InitialValues(KeyA)
  /\ getIsDirty(KeyA, context)

\* C18: the behaviours are idempotent: from every reachable context, the
\* same CHANGE, BLUR or FOCUS event handled twice in a row leaves the context
\* that handling it once leaves.
C18_Idempotent ==
  \A k \in DOMAIN forms : \A e \in BehaviourEvents(k) :
    handleDefault(k, handleDefault(k, context, e), e) = handleDefault(k, context, e)

\* CHANGE and FOCUS of username have been applied; applying either again
\* changes nothing
C18_Witness ==
  /\ "username" \in DOMAIN written[KeyA]
  /\ written[KeyA]["username"] # InitialValues(KeyA)["username"]
  /\ context[KeyA].touched["username"]
  /\ context[KeyA].errors # forms[KeyA].initialContext.errors
  /\ handleDefault(KeyA, context, change(KeyA, "username", written[KeyA]["username"]))
       = context
  /\ handleDefault(KeyA, context, focus(KeyA, "username")) = context

\* the two events do not write the same field of values
Independent(k, e1, e2) == IsFocus(k, e1) \/ IsFocus(k, e2) \/ e1.name # e2.name

\* C19: behaviours on independent parts commute: from every reachable
\* context, CHANGE/BLUR events of two different fields, two FOCUS events, and
\* a FOCUS with a CHANGE or BLUR, leave the same context in either order.
C19_Commute ==
  \A k \in DOMAIN forms : \A e1 \in BehaviourEvents(k), e2 \in BehaviourEvents(k) :
    Independent(k, e1, e2) =>
      applySerialized(k, context, e1, e2) = applySerialized(k, context, e2, e1)

\* the state both orders of CHANGE username, BLUR password and FOCUS password
\* lead to
C19_Witness ==
  /\ InitialValues(KeyA) = [n \in {"username", "password"} |-> ""]
  /\ forms[KeyA].config.validate = "login"
  /\ written[KeyA] = [n \in {"username", "password"} |-> "something"]
  /\ context[KeyA].touched = [n \in {"username", "password"} |-> n = "password"]
  /\ context[KeyA].errors = EmptyMap
  /\ context = applySerialized(KeyA,
                 handleDefault(KeyA, InitialHostContext(forms), focus(KeyA, "password")),
                 blur(KeyA, "password", "something"),
                 change(KeyA, "username", "something"))
  /\ context = handleDefault(KeyA,
                 applySerialized(KeyA, InitialHostContext(forms),
                                 change(KeyA, "username", "something"),
                                 blur(KeyA, "password", "something")),
                 focus(KeyA, "password"))

====
